---- MODULE Spec2Model ----
(***************************************************************************)
(* Model of skills/documentation/templates/capture-screenshots.py:         *)
(* the annotation translator (convert_to_mcp_format), the measurement of   *)
(* an element (get_element_bounds) and the per-capture batch loop          *)
(* (extract_annotations).                                                  *)
(*                                                                         *)
(* Python dicts are TLA+ functions with string domains (records), so that  *)
(* dict.get(key, default), dict.update and dict.pop are modelled on the    *)
(* key set.  Playwright's bounding box is a float rectangle; it is         *)
(* modelled in half pixels (an integer n stands for n/2 px), which makes   *)
(* the truncation done by int() observable.  highlight's opacity 0.35 is   *)
(* carried in hundredths.                                                  *)
(***************************************************************************)
EXTENDS Integers, Sequences, FiniteSets, TLC

VARIABLES
    pc,               \* position of the modelled call
    args,             \* arguments of the convert_to_mcp_format call under study
    ret,              \* its return value (None before it returned)
    annotations,      \* extract_annotations: the caller's ordered batch of requests
    i,                \* extract_annotations: number of requests processed so far
    extracted,        \* extract_annotations: metadata list
    mcp_annotations,  \* extract_annotations: draw command list
    elements,         \* what the page answered for each processed request
    calls,            \* the translator invocations made by extract_annotations
    ALL_MCP_COMMANDS, \* module global: per-image entries for the batch file
    CAPTURE_RESULTS,  \* module global: the success, failed and skipped filename lists
    ADMIN_TABS,       \* configuration: admin tab captures
    FRONTEND_PAGES,   \* configuration: frontend page captures
    EDITOR_TYPES,     \* configuration: editor type captures
    ROLE_CAPTURES,    \* configuration: role comparison captures
    cur,              \* loop index of the capture sequence run last
    frame,            \* the capture_screenshot_with_retry call that runs or has just returned
    log,              \* the capture calls this main() has finished, in order
    writes,           \* the command files this main() has written, in order
    translated,       \* <<arguments, result>> of the translations this main() has made
    exit_code,        \* what main() returned (None before it returns)
    current_role,     \* navigate_and_capture.current_role, as getattr reads it
    switches,         \* the switch_user calls this main() has made, in order
    logged_in,        \* this main()'s login_as(page, "admin") returned True
    escaped           \* an exception of this main() reached its `except Exception`

extract_vars ==
    <<args, ret, annotations, i, extracted, mcp_annotations, elements, calls>>

session_vars ==
    <<ALL_MCP_COMMANDS, CAPTURE_RESULTS, ADMIN_TABS, FRONTEND_PAGES, EDITOR_TYPES,
      ROLE_CAPTURES, cur, frame, log, writes, translated, exit_code, current_role,
      switches, logged_in, escaped>>

vars == <<pc, extract_vars, session_vars>>

-----------------------------------------------------------------------------
(* Bounds of the model *)

MaxCoord == 2       \* box origin ranges over -MaxCoord..MaxCoord half pixels
MaxSize == 3        \* box width and height range over 0..MaxSize half pixels
MaxBatch == 3       \* longest batch of requests
MaxTypedBatch == 2  \* longest batch of requests drawn over every semantic type
MaxEditors == 1     \* longest EDITOR_TYPES list
MaxRoles == 2       \* longest role list of a role capture
MaxTabs == 2        \* longest ADMIN_TABS list of the sessions over admin tabs
MaxCaptures == 1    \* longest ADMIN_TABS and FRONTEND_PAGES list

-----------------------------------------------------------------------------
(* Python values *)

None == [none |-> TRUE]

\* dict.get(key, default)
Get(d, key, default) == IF key \in DOMAIN d THEN d[key] ELSE default

\* dict.update(other), as a value
Update(d, other) ==
    [k \in DOMAIN d \cup DOMAIN other |-> IF k \in DOMAIN other THEN other[k] ELSE d[k]]

\* the dict left by dict.pop(key)
Pop(d, key) == [k \in DOMAIN d \ {key} |-> d[k]]

\* int() of the rational n/d, d > 0: truncation toward zero
PyInt(n, d) == IF n >= 0 THEN n \div d ELSE -((-n) \div d)

Max(a, b) == IF a >= b THEN a ELSE b

\* a returned value that is not None
Return(v) == [value |-> v]

\* the module globals as the import leaves them, and no main() running
NoResults == [success |-> <<>>, failed |-> <<>>, skipped |-> <<>>]

SessionIdle ==
    /\ ALL_MCP_COMMANDS = <<>>
    /\ CAPTURE_RESULTS = NoResults
    /\ ADMIN_TABS = <<>>
    /\ FRONTEND_PAGES = <<>>
    /\ EDITOR_TYPES = <<>>
    /\ ROLE_CAPTURES = <<>>
    /\ cur = 0
    /\ frame = None
    /\ log = <<>>
    /\ writes = <<>>
    /\ translated = {}
    /\ exit_code = None
    /\ current_role = "admin"
    /\ switches = <<>>
    /\ logged_in = FALSE
    /\ escaped = FALSE

-----------------------------------------------------------------------------
(* Configuration tables *)

TYPE_MAPPING ==
    [box |-> "rect", number |-> "marker", arrow |-> "arrow", circle |-> "circle",
     highlight |-> "highlight", callout |-> "callout", label |-> "label", blur |-> "blur"]

\* DEFAULT_COLORS with the arrow and label entries taken from the rect row
DEFAULT_COLORS_ArrowRed ==
    [marker |-> "primary", rect |-> "red", arrow |-> "red", circle |-> "red",
     highlight |-> "yellow", callout |-> "primary", label |-> "red"]

DEFAULT_COLORS ==
    [marker |-> "primary", rect |-> "red", arrow |-> "primary", circle |-> "red",
     highlight |-> "yellow", callout |-> "primary", label |-> "darkGray"]

MAX_RETRIES == 3

OUTPUT_DIR == "docs/images"
ANNOTATED_DIR == "docs/images/annotated"
METADATA_DIR == "/tmp/screenshot-metadata-your-plugin-slug"

HIGHLIGHT_OPACITY == 35     \* 0.35, in hundredths

-----------------------------------------------------------------------------
(* get_element_bounds *)

\* get_element_bounds without the is_visible() test
get_element_bounds_NoVisibleCheck(el) ==
    IF el.raises THEN None
    ELSE IF el.box # None
         THEN [x |-> PyInt(el.box.x, 2),
               y |-> PyInt(el.box.y, 2),
               width |-> PyInt(el.box.width, 2),
               height |-> PyInt(el.box.height, 2),
               center_x |-> PyInt(2 * el.box.x + el.box.width, 4),
               center_y |-> PyInt(2 * el.box.y + el.box.height, 4)]
         ELSE None

\* A located element: whether the locator calls raise, whether it is visible,
\* and its bounding box in half pixels (None when Playwright returns none).
get_element_bounds(el) ==
    IF el.raises THEN None
    ELSE IF el.visible
         THEN IF el.box # None
              THEN [x |-> PyInt(el.box.x, 2),
                    y |-> PyInt(el.box.y, 2),
                    width |-> PyInt(el.box.width, 2),
                    height |-> PyInt(el.box.height, 2),
                    center_x |-> PyInt(2 * el.box.x + el.box.width, 4),
                    center_y |-> PyInt(2 * el.box.y + el.box.height, 4)]
              ELSE None
         ELSE None

-----------------------------------------------------------------------------
(* convert_to_mcp_format, branch by branch *)

\* the auxiliary label dict the rect, arrow and circle branches attach as "_label"
LabelAt(x, y, label) ==
    [type |-> "label", x |-> x, y |-> y, text |-> label, color |-> "darkGray",
     fontSize |-> 14, background |-> "white", shadow |-> TRUE]

\* MarkerCommand numbering from the commands collected so far in the session
MarkerCommand_SessionCounter(bounds, number, color) ==
    [type |-> "marker", x |-> bounds.center_x, y |-> bounds.center_y,
     number |-> number + Len(ALL_MCP_COMMANDS), color |-> color, size |-> 24]

\* mcp_type == "marker"
MarkerCommand(bounds, number, color) ==
    [type |-> "marker", x |-> bounds.center_x, y |-> bounds.center_y,
     number |-> number, color |-> color, size |-> 24]

\* mcp_type == "rect": the rectangle around the element
padding == 4

\* RectCommand with the padding added once to the size
RectCommand_SinglePadding(bounds, color) ==
    [type |-> "rect",
     x |-> bounds.x - padding,
     y |-> bounds.y - padding,
     width |-> bounds.width + padding,
     height |-> bounds.height + padding,
     color |-> color, strokeWidth |-> 3]

RectCommand(bounds, color) ==
    [type |-> "rect",
     x |-> bounds.x - padding,
     y |-> bounds.y - padding,
     width |-> bounds.width + (padding * 2),
     height |-> bounds.height + (padding * 2),
     color |-> color, strokeWidth |-> 3]

\* RectLabelPoint measured from the padded rectangle
RectLabelPoint_Inflated(bounds, position) ==
    IF position = "top" THEN <<bounds.center_x, bounds.y - padding - 25>>
    ELSE IF position = "bottom"
         THEN <<bounds.center_x, bounds.y + bounds.height + padding + 20>>
    ELSE IF position = "left" THEN <<bounds.x - padding - 10, bounds.center_y>>
    ELSE <<bounds.x + bounds.width + padding + 15, bounds.center_y>>

\* mcp_type == "rect": where the label goes, as <<x, y>>
RectLabelPoint(bounds, position) ==
    IF position = "top" THEN <<bounds.center_x, bounds.y - 25>>
    ELSE IF position = "bottom" THEN <<bounds.center_x, bounds.y + bounds.height + 20>>
    ELSE IF position = "left" THEN <<bounds.x - 10, bounds.center_y>>
    ELSE <<bounds.x + bounds.width + 15, bounds.center_y>>

\* mcp_type == "arrow": the arrow's two points
label_offset == 100

\* ArrowFrom with auto falling through to the left case
ArrowFrom_AutoLeft(bounds, position) ==
    IF position \in {"left", "auto"} THEN <<bounds.x - label_offset, bounds.center_y>>
    ELSE IF position = "right"
         THEN <<bounds.x + bounds.width + label_offset, bounds.center_y>>
    ELSE IF position = "top" THEN <<bounds.center_x, bounds.y - label_offset>>
    ELSE <<bounds.center_x, bounds.y + bounds.height + label_offset>>

ArrowFrom(bounds, position) ==
    IF position = "left" THEN <<bounds.x - label_offset, bounds.center_y>>
    ELSE IF position = "right"
         THEN <<bounds.x + bounds.width + label_offset, bounds.center_y>>
    ELSE IF position = "top" THEN <<bounds.center_x, bounds.y - label_offset>>
    ELSE IF position = "bottom"
         THEN <<bounds.center_x, bounds.y + bounds.height + label_offset>>
    ELSE <<bounds.x + bounds.width + label_offset, bounds.center_y>>

ArrowTo(bounds, position) ==
    IF position = "left" THEN <<bounds.x - 5, bounds.center_y>>
    ELSE IF position = "right" THEN <<bounds.x + bounds.width + 5, bounds.center_y>>
    ELSE IF position = "top" THEN <<bounds.center_x, bounds.y - 5>>
    ELSE IF position = "bottom" THEN <<bounds.center_x, bounds.y + bounds.height + 5>>
    ELSE <<bounds.x + bounds.width + 5, bounds.center_y>>

\* ArrowLabelPoint displaced along the arrow's axis, away from the element
ArrowLabelPoint_Outward(from_pt, position) ==
    IF position = "left" THEN <<from_pt[1] - 10, from_pt[2]>>
    ELSE IF position = "top" THEN <<from_pt[1], from_pt[2] - 10>>
    ELSE IF position = "bottom" THEN <<from_pt[1], from_pt[2] + 10>>
    ELSE <<from_pt[1] + 10, from_pt[2]>>

\* mcp_type == "arrow": the label at the arrow start, as <<x, y>>
ArrowLabelPoint(from_pt, position) ==
    <<from_pt[1] + (IF position \in {"left", "auto"} THEN 10 ELSE -10), from_pt[2]>>

\* CircleRadius from the smaller side
CircleRadius_Min(bounds) ==
    ((IF bounds.width <= bounds.height THEN bounds.width ELSE bounds.height) \div 2) + 8

\* mcp_type == "circle"
CircleRadius(bounds) == (Max(bounds.width, bounds.height) \div 2) + 8

CircleCommand(bounds, color) ==
    [type |-> "circle", x |-> bounds.center_x, y |-> bounds.center_y,
     radius |-> CircleRadius(bounds), color |-> color, strokeWidth |-> 3]

\* CircleLabelPoint that ignores the radius
CircleLabelPoint_NoRadius(bounds, radius) == <<bounds.center_x + 15, bounds.center_y>>

CircleLabelPoint(bounds, radius) == <<bounds.center_x + radius + 15, bounds.center_y>>

\* HighlightCommand with the rect branch's padding and table colour
HighlightCommand_LikeRect(bounds, color) ==
    [type |-> "highlight", x |-> bounds.x - padding, y |-> bounds.y - padding,
     width |-> bounds.width + (padding * 2), height |-> bounds.height + (padding * 2),
     color |-> Get(DEFAULT_COLORS, "rect", "red"), opacity |-> HIGHLIGHT_OPACITY]

\* mcp_type == "highlight"
HighlightCommand(bounds, color) ==
    [type |-> "highlight", x |-> bounds.x, y |-> bounds.y,
     width |-> bounds.width, height |-> bounds.height,
     color |-> "yellow", opacity |-> HIGHLIGHT_OPACITY]

\* CalloutPointer that passes the position through, pointing away from the element
CalloutPointer_SameSide(position) ==
    Get([top |-> "top", bottom |-> "bottom", left |-> "left", right |-> "right"],
        position, "left")

\* mcp_type == "callout"
CalloutPointer(position) ==
    Get([top |-> "bottom", bottom |-> "top", left |-> "right", right |-> "left"],
        position, "left")

CalloutCommand(bounds, label, position, color) ==
    [type |-> "callout", x |-> bounds.center_x, y |-> bounds.center_y,
     text |-> label, pointer |-> CalloutPointer(position), color |-> color,
     background |-> "white", shadow |-> TRUE]

\* mcp_type == "label"
LabelCommand(bounds, label) == LabelAt(bounds.center_x, bounds.y - 20, label)

\* mcp_type == "blur"
BlurCommand(bounds) ==
    [type |-> "blur", x |-> bounds.x, y |-> bounds.y,
     width |-> bounds.width, height |-> bounds.height, intensity |-> 8]

\* WithLabel without the `if label:` test
WithLabel_Unconditional(mcp_ann, label, pt) ==
    Update(mcp_ann, [_label |-> LabelAt(pt[1], pt[2], label)])

\* `if label:` attaches the auxiliary label under the key "_label"
WithLabel(mcp_ann, label, pt) ==
    IF label # ""
    THEN Update(mcp_ann, [_label |-> LabelAt(pt[1], pt[2], label)])
    ELSE mcp_ann

convert_to_mcp_format(ann_type, bounds, label, position, number) ==
    LET mcp_type == Get(TYPE_MAPPING, ann_type, ann_type)
        color == Get(DEFAULT_COLORS, mcp_type, "red")
        mcp_ann == [type |-> mcp_type]
    IN  IF mcp_type = "marker"
        THEN Update(mcp_ann, MarkerCommand(bounds, number, color))
        ELSE IF mcp_type = "rect"
        THEN WithLabel(Update(mcp_ann, RectCommand(bounds, color)), label,
                       RectLabelPoint(bounds, position))
        ELSE IF mcp_type = "arrow"
        THEN LET from_pt == ArrowFrom(bounds, position)
                 to_pt == ArrowTo(bounds, position)
             IN  WithLabel(Update(mcp_ann, [from |-> from_pt, to |-> to_pt,
                                           color |-> color, strokeWidth |-> 2]),
                           label, ArrowLabelPoint(from_pt, position))
        ELSE IF mcp_type = "circle"
        THEN WithLabel(Update(mcp_ann, CircleCommand(bounds, color)), label,
                       CircleLabelPoint(bounds, CircleRadius(bounds)))
        ELSE IF mcp_type = "highlight"
        THEN Update(mcp_ann, HighlightCommand(bounds, color))
        ELSE IF mcp_type = "callout"
        THEN Update(mcp_ann, CalloutCommand(bounds, label, position, color))
        ELSE IF mcp_type = "label"
        THEN Update(mcp_ann, LabelCommand(bounds, label))
        ELSE IF mcp_type = "blur"
        THEN Update(mcp_ann, BlurCommand(bounds))
        ELSE mcp_ann

-----------------------------------------------------------------------------
(* extract_annotations: one iteration of `for i, ann in enumerate(annotations)` *)

\* RequestArgs numbering by the count of found requests instead of the position
RequestArgs_FoundOrdinal(ann, idx) ==
    [selector |-> Get(ann, "selector", ""),
     type |-> Get(ann, "type", "box"),
     label |-> Get(ann, "label", ""),
     position |-> Get(ann, "position", "auto"),
     number |-> Get(ann, "number", Len(calls) + 1)]

\* the arguments extract_annotations reads off request ann at 0-based index idx
RequestArgs(ann, idx) ==
    [selector |-> Get(ann, "selector", ""),
     type |-> Get(ann, "type", "box"),
     label |-> Get(ann, "label", ""),
     position |-> Get(ann, "position", "auto"),
     number |-> Get(ann, "number", idx + 1)]

\* the record appended to `extracted`
ExtractedRecord(r, idx, bounds) ==
    [index |-> idx + 1, selector |-> r.selector, label |-> r.label, type |-> r.type,
     position |-> r.position, number |-> r.number,
     bounds |-> bounds, found |-> (bounds # None)]

\* AppendCommands with the label appended before the command it belongs to
AppendCommands_LabelFirst(cmds, mcp_ann) ==
    IF "_label" \in DOMAIN mcp_ann
    THEN Append(Append(cmds, mcp_ann["_label"]), Pop(mcp_ann, "_label"))
    ELSE Append(cmds, mcp_ann)

\* the commands appended to `mcp_annotations` for a found request
AppendCommands(cmds, mcp_ann) ==
    IF "_label" \in DOMAIN mcp_ann
    THEN Append(Append(cmds, Pop(mcp_ann, "_label")), mcp_ann["_label"])
    ELSE Append(cmds, mcp_ann)

-----------------------------------------------------------------------------
(* Inputs *)

Types == DOMAIN TYPE_MAPPING \cup {"sparkle"}
Positions == {"top", "bottom", "left", "right", "auto"}
Labels == {"", "Save"}
Numbers == {1, 7}

\* bounding boxes in half pixels; the last one is {x:100, y:200, width:50, height:20}
Boxes ==
    [x : -MaxCoord..MaxCoord, y : -MaxCoord..MaxCoord,
     width : 0..MaxSize, height : 0..MaxSize]
    \cup {[x |-> 200, y |-> 400, width |-> 100, height |-> 40]}

Visible(box) == [raises |-> FALSE, visible |-> TRUE, box |-> box]

TranslateArgs ==
    {[ann_type |-> t, bounds |-> get_element_bounds(Visible(b)), label |-> l,
      position |-> p, number |-> n] :
        t \in Types, b \in Boxes, l \in Labels, p \in Positions, n \in Numbers}

\* what the page may answer for a selector during a batch
BatchBox == [x |-> 21, y |-> -7, width |-> 9, height |-> 4]
Elements ==
    {[raises |-> TRUE, visible |-> FALSE, box |-> None],
     [raises |-> FALSE, visible |-> FALSE, box |-> BatchBox],
     [raises |-> FALSE, visible |-> TRUE, box |-> None],
     Visible(BatchBox)}

\* requests of a batch: dicts with optional keys
Requests ==
    {Update(Update(Update([selector |-> "#el"], t), l), n) :
        t \in {[type |-> "number"], <<>>},
        l \in {[label |-> "Save"], <<>>},
        n \in {[number |-> 7], <<>>}}

Batches == UNION {[1..n -> Requests] : n \in 0..MaxBatch}

-----------------------------------------------------------------------------
(* The translator called on its own *)

InitTranslate ==
    /\ pc = "convert_to_mcp_format"
    /\ args \in TranslateArgs
    /\ ret = None
    /\ annotations = <<>>
    /\ i = 0
    /\ extracted = <<>>
    /\ mcp_annotations = <<>>
    /\ elements = <<>>
    /\ calls = <<>>
    /\ SessionIdle

Translate ==
    /\ pc = "convert_to_mcp_format"
    /\ ret' = convert_to_mcp_format(args.ann_type, args.bounds, args.label,
                                    args.position, args.number)
    /\ pc' = "returned"
    /\ UNCHANGED <<args, annotations, i, extracted, mcp_annotations, elements, calls>>
    /\ UNCHANGED session_vars

NextTranslate == Translate

SpecTranslate == InitTranslate /\ [][NextTranslate]_vars

-----------------------------------------------------------------------------
(* extract_annotations over a batch *)

Init ==
    /\ pc = "extract_annotations"
    /\ annotations \in Batches
    /\ i = 0
    /\ extracted = <<>>
    /\ mcp_annotations = <<>>
    /\ elements = <<>>
    /\ calls = <<>>
    /\ args = None
    /\ ret = None
    /\ SessionIdle

\* loop body for request i (0-based), the page answering with element el
ExtractStep ==
    /\ pc = "extract_annotations"
    /\ i < Len(annotations)
    /\ \E el \in Elements :
         LET r == RequestArgs(annotations[i + 1], i)
             bounds == get_element_bounds(el)
         IN  /\ elements' = Append(elements, el)
             /\ extracted' = Append(extracted, ExtractedRecord(r, i, bounds))
             /\ IF bounds # None
                THEN /\ mcp_annotations' =
                            AppendCommands(mcp_annotations,
                                convert_to_mcp_format(r.type, bounds, r.label,
                                                      r.position, r.number))
                     /\ calls' = Append(calls,
                            [index |-> i + 1, ann_type |-> r.type, bounds |-> bounds,
                             label |-> r.label, position |-> r.position,
                             number |-> r.number])
                ELSE UNCHANGED <<mcp_annotations, calls>>
    /\ i' = i + 1
    /\ UNCHANGED <<pc, args, ret, annotations>>
    /\ UNCHANGED session_vars

\* `return extracted, mcp_annotations`
ExtractReturn ==
    /\ pc = "extract_annotations"
    /\ i = Len(annotations)
    /\ pc' = "returned"
    /\ UNCHANGED <<args, ret, annotations, i, extracted, mcp_annotations, elements, calls>>
    /\ UNCHANGED session_vars

Next == ExtractStep \/ ExtractReturn

Spec == Init /\ [][Next]_vars

\* the same loop, over batches whose requests range over every semantic type
TypedRequests ==
    {Update([selector |-> "#el", type |-> t], l) :
        t \in Types, l \in {[label |-> "Save"], <<>>}}

TypedBatches == UNION {[1..n -> TypedRequests] : n \in 0..MaxTypedBatch}

InitAllTypes ==
    /\ pc = "extract_annotations"
    /\ annotations \in TypedBatches
    /\ i = 0
    /\ extracted = <<>>
    /\ mcp_annotations = <<>>
    /\ elements = <<>>
    /\ calls = <<>>
    /\ args = None
    /\ ret = None
    /\ SessionIdle

SpecAllTypes == InitAllTypes /\ [][Next]_vars

-----------------------------------------------------------------------------
(* Paths and file names *)

\* os.path.join
join(dir, name) == dir \o "/" \o name

\* os.path.abspath of a path relative to the working directory
abspath(path) == "/cwd/" \o path

\* screenshot file names are <stem>.png
Stems ==
    {"admin-1", "admin-2", "admin-3", "admin-4", "page-1", "page-2", "page-3", "page-4",
     "form-editorjs", "form-medium", "form-classic",
     "dashboard-admin", "dashboard-subscriber", "dashboard-author"}

\* os.path.splitext(filename)[0]
splitext0(filename) == CHOOSE st \in Stems : st \o ".png" = filename

-----------------------------------------------------------------------------
(* extract_annotations as one call: the whole loop over the batch, the page
   answering els[k] for request k *)

RECURSIVE ExtractLoop(_, _, _, _, _)
ExtractLoop(anns, els, k, ex, cmds) ==
    IF k = Len(anns)
    THEN [extracted |-> ex, mcp_annotations |-> cmds]
    ELSE LET r == RequestArgs(anns[k + 1], k)
             bounds == get_element_bounds(els[k + 1])
         IN  ExtractLoop(anns, els, k + 1,
                 Append(ex, ExtractedRecord(r, k, bounds)),
                 IF bounds # None
                 THEN AppendCommands(cmds,
                          convert_to_mcp_format(r.type, bounds, r.label, r.position,
                                                r.number))
                 ELSE cmds)

extract_annotations(anns, els) == ExtractLoop(anns, els, 0, <<>>, <<>>)

\* the translations that call makes, as <<arguments, result>>
Translations(anns, els) ==
    {LET r == RequestArgs(anns[k], k - 1)
         bounds == get_element_bounds(els[k])
     IN  <<[ann_type |-> r.type, bounds |-> bounds, label |-> r.label,
            position |-> r.position, number |-> r.number],
           convert_to_mcp_format(r.type, bounds, r.label, r.position, r.number)>> :
        k \in {n \in 1..Len(anns) : get_element_bounds(els[n]) # None}}

-----------------------------------------------------------------------------
(* save_metadata, generate_mcp_batch_file, capture_screenshot, setup_directories *)

\* where a capture attempt may raise: nowhere, in a page call (screenshot, url,
\* title), in the metadata json.dump, or in the MCP command json.dump
Faults(anns, mcp) ==
    {"none", "page"}
        \cup (IF anns # <<>> THEN {"metadata"} ELSE {})
        \cup (IF anns # <<>> /\ mcp # <<>> THEN {"mcp"} ELSE {})

\* the per-image MCP command save_metadata writes
McpCommand(filename, metadata, mcp) ==
    [tool |-> "annotate_screenshot",
     input_path |-> metadata.filepath,
     output_path |-> join(ANNOTATED_DIR, filename),
     theme |-> "documentation",
     annotations |-> mcp]

\* save_metadata without `if mcp_annotations:` around the command file
save_metadata_AlwaysWritesCommand(filename, metadata, mcp, fault) ==
    LET mcp_path == join(METADATA_DIR, splitext0(filename) \o "_mcp.json")
        mcp_file == [path |-> mcp_path, content |-> McpCommand(filename, metadata, mcp)]
    IN  IF fault \in {"metadata", "mcp"} THEN [raised |-> TRUE, writes |-> <<>>]
        ELSE [raised |-> FALSE, writes |-> <<mcp_file>>]

\* save_metadata with the json.dump errors caught inside it
save_metadata_CatchesDumpErrors(filename, metadata, mcp, fault) ==
    LET mcp_path == join(METADATA_DIR, splitext0(filename) \o "_mcp.json")
        mcp_file == [path |-> mcp_path, content |-> McpCommand(filename, metadata, mcp)]
    IN  [raised |-> FALSE,
         writes |-> IF mcp = <<>> \/ fault \in {"metadata", "mcp"}
                    THEN <<>> ELSE <<mcp_file>>]

\* save_metadata: the command file it writes (the metadata .json file is
\* written first and is not tracked) and whether it raised
save_metadata(filename, metadata, mcp, fault) ==
    LET mcp_path == join(METADATA_DIR, splitext0(filename) \o "_mcp.json")
        mcp_file == [path |-> mcp_path, content |-> McpCommand(filename, metadata, mcp)]
    IN  IF fault = "metadata" THEN [raised |-> TRUE, writes |-> <<>>]
        ELSE IF mcp = <<>> THEN [raised |-> FALSE, writes |-> <<>>]
        ELSE IF fault = "mcp" THEN [raised |-> TRUE, writes |-> <<>>]
        ELSE [raised |-> FALSE, writes |-> <<mcp_file>>]

\* the entry capture_screenshot appends to ALL_MCP_COMMANDS
BatchEntry(filename, filepath, mcp) ==
    [input_path |-> abspath(filepath),
     output_path |-> join(abspath(ANNOTATED_DIR), filename),
     annotations |-> mcp]

\* generate_mcp_batch_file: the file it writes
BatchFile(all_captures) ==
    [path |-> join(METADATA_DIR, "_batch_annotate.json"),
     content |-> [description |-> "Batch annotation commands for Image Annotator MCP",
                  output_dir |-> ANNOTATED_DIR,
                  commands |-> all_captures]]

\* ALL_MCP_COMMANDS.append with the batch entry before save_metadata is called
TrackCommands_BeforeSave(raised, entry, mcp) ==
    IF mcp = <<>> THEN <<>> ELSE <<entry>>

\* `if mcp_annotations: ALL_MCP_COMMANDS.append(...)`, reached after
\* save_metadata returned: what is appended to ALL_MCP_COMMANDS
TrackCommands(raised, entry, mcp) ==
    IF raised \/ mcp = <<>> THEN <<>> ELSE <<entry>>

\* CAPTURE_RESULTS["success"].append right after page.screenshot
TrackSuccess_AfterScreenshot(raised, filename) == <<filename>>

\* `CAPTURE_RESULTS["success"].append(filename)`, the last statement before
\* the return: what is appended to the success list
TrackSuccess(raised, filename) ==
    IF raised THEN <<>> ELSE <<filename>>

\* capture_screenshot: what one call does to the command files and the
\* globals, whether it raised or returned filepath, and whether a json.dump
\* failed in it
capture_screenshot(filename, full_page, anns, els, fault) ==
    LET filepath == join(OUTPUT_DIR, filename)
        ex == extract_annotations(anns, els)
        metadata == [filename |-> filename, filepath |-> abspath(filepath),
                     full_page |-> full_page, annotations |-> ex.extracted]
        saved == save_metadata(filename, metadata, ex.mcp_annotations, fault)
        entry == BatchEntry(filename, filepath, ex.mcp_annotations)
    IN  IF fault = "page"
        THEN [raised |-> TRUE, serialization |-> FALSE, writes |-> <<>>,
              commands |-> <<>>, success |-> <<>>, translated |-> {},
              result |-> None]
        ELSE IF anns = <<>>
        THEN [raised |-> FALSE, serialization |-> FALSE, writes |-> <<>>,
              commands |-> <<>>, success |-> TrackSuccess(FALSE, filename),
              translated |-> {}, result |-> Return(filepath)]
        ELSE [raised |-> saved.raised,
              serialization |-> fault \in {"metadata", "mcp"},
              writes |-> saved.writes,
              commands |-> TrackCommands(saved.raised, entry, ex.mcp_annotations),
              success |-> TrackSuccess(saved.raised, filename),
              translated |-> Translations(anns, els),
              result |-> IF saved.raised THEN None ELSE Return(filepath)]

\* CAPTURE_RESULTS["failed"].append(filename)
Failed(results, filename) == [results EXCEPT !.failed = Append(@, filename)]

\* setup_directories without the last two clear() calls
setup_directories_KeepsFailedSkipped ==
    [ALL_MCP_COMMANDS |-> <<>>,
     CAPTURE_RESULTS |-> [CAPTURE_RESULTS EXCEPT !.success = <<>>]]

\* setup_directories: the tracking it leaves
setup_directories ==
    [ALL_MCP_COMMANDS |-> <<>>,
     CAPTURE_RESULTS |-> [success |-> <<>>, failed |-> <<>>, skipped |-> <<>>]]

-----------------------------------------------------------------------------
(* main(): a capture session *)

Digits == <<"1", "2", "3", "4">>

\* annotation batches a capture may configure
SessionBatches ==
    {<<[selector |-> "#el", type |-> "number"]>>,
     <<[selector |-> "#el", label |-> "Save"]>>}

\* what a selector finds on a captured page: nothing, or a visible element
SessionElements ==
    {[raises |-> FALSE, visible |-> FALSE, box |-> BatchBox], Visible(BatchBox)}

\* the ADMIN_TABS entries possible at position k: dicts with optional keys
AdminCaptures(k) ==
    {Update(Update([filename |-> "admin-" \o Digits[k] \o ".png"], t), a) :
        t \in {<<>>, [tab |-> "general"]},
        a \in {<<>>, [annotations |-> <<[selector |-> "#el", type |-> "number"]>>]}}

\* the FRONTEND_PAGES entries possible at position k
FrontendCaptures(k) ==
    {Update([url |-> "/members/{username}/blog/",
             filename |-> "page-" \o Digits[k] \o ".png"], a) :
        a \in {<<>>} \cup {[annotations |-> b] : b \in SessionBatches}}

Configs(captures) ==
    UNION {{c \in [1..n -> UNION {captures[k] : k \in 1..n}] :
                \A k \in 1..n : c[k] \in captures[k]} : n \in 0..MaxCaptures}

InitSession ==
    /\ pc = "main"
    /\ ADMIN_TABS \in Configs([k \in 1..MaxCaptures |-> AdminCaptures(k)])
    /\ FRONTEND_PAGES \in Configs([k \in 1..MaxCaptures |-> FrontendCaptures(k)])
    /\ EDITOR_TYPES = <<>>
    /\ ROLE_CAPTURES = <<>>
    /\ current_role = "admin"
    /\ switches = <<>>
    /\ logged_in = FALSE
    /\ escaped = FALSE
    /\ ALL_MCP_COMMANDS = <<>>
    /\ CAPTURE_RESULTS = NoResults
    /\ cur = 0
    /\ frame = None
    /\ log = <<>>
    /\ writes = <<>>
    /\ translated = {}
    /\ exit_code = None
    /\ args = None
    /\ ret = None
    /\ annotations = <<>>
    /\ i = 0
    /\ extracted = <<>>
    /\ mcp_annotations = <<>>
    /\ elements = <<>>
    /\ calls = <<>>

config_vars == <<ADMIN_TABS, FRONTEND_PAGES, EDITOR_TYPES, ROLE_CAPTURES>>

role_vars == <<current_role, switches, logged_in, escaped>>

\* main() is entered: setup_directories()
MainSetup ==
    /\ pc = "main"
    /\ ALL_MCP_COMMANDS' = setup_directories.ALL_MCP_COMMANDS
    /\ CAPTURE_RESULTS' = setup_directories.CAPTURE_RESULTS
    /\ frame' = None
    /\ log' = <<>>
    /\ writes' = <<>>
    /\ translated' = {}
    /\ exit_code' = None
    /\ switches' = <<>>
    /\ logged_in' = FALSE
    /\ escaped' = FALSE
    /\ pc' = "login_as"
    /\ UNCHANGED <<cur, current_role, config_vars, extract_vars>>

\* setup_directories raises in makedirs or rmtree, before the tracking is
\* reset: main is left by the exception
SetupRaises ==
    /\ pc = "main"
    /\ pc' = "raised"
    /\ UNCHANGED <<ALL_MCP_COMMANDS, CAPTURE_RESULTS, cur, frame, log, writes, translated,
                   exit_code, config_vars, role_vars, extract_vars>>

\* the browser starts and login_as(page, "admin") returns True
LoginSucceeds ==
    /\ pc = "login_as"
    /\ logged_in' = TRUE
    /\ current_role' = "admin"
    /\ pc' = "capture_admin_tabs"
    /\ UNCHANGED <<ALL_MCP_COMMANDS, CAPTURE_RESULTS, cur, frame, log, writes, translated,
                   exit_code, switches, escaped, config_vars, extract_vars>>

\* starting the browser raises: `except Exception` of main returns 1
BrowserLaunchRaises ==
    /\ pc = "login_as"
    /\ escaped' = TRUE
    /\ exit_code' = Return(1)
    /\ pc' = "exited"
    /\ UNCHANGED <<ALL_MCP_COMMANDS, CAPTURE_RESULTS, cur, frame, log, writes, translated,
                   current_role, switches, logged_in, config_vars, extract_vars>>

\* login_as(page, "admin") returns False: main returns 1
LoginFails ==
    /\ pc = "login_as"
    /\ exit_code' = Return(1)
    /\ pc' = "exited"
    /\ UNCHANGED <<ALL_MCP_COMMANDS, CAPTURE_RESULTS, cur, frame, log, writes, translated,
                   config_vars, role_vars, extract_vars>>

\* capture_admin_tabs: ADMIN_TABS is empty, or loading the admin page raises
AdminTabsNotLoaded ==
    /\ pc = "capture_admin_tabs"
    /\ pc' = "capture_frontend_pages"
    /\ cur' = 0
    /\ UNCHANGED <<ALL_MCP_COMMANDS, CAPTURE_RESULTS, frame, log, writes, translated,
                   exit_code, config_vars, role_vars, extract_vars>>

\* capture_admin_tabs: the admin page loads
AdminTabsLoaded ==
    /\ pc = "capture_admin_tabs"
    /\ ADMIN_TABS # <<>>
    /\ pc' = "for capture in ADMIN_TABS"
    /\ cur' = 0
    /\ UNCHANGED <<ALL_MCP_COMMANDS, CAPTURE_RESULTS, frame, log, writes, translated,
                   exit_code, config_vars, role_vars, extract_vars>>

\* the frame of a capture_screenshot_with_retry call that starts
NewFrame(caller, capture) ==
    [caller |-> caller,
     filename |-> capture.filename,
     full_page |-> Get(capture, "full_page", FALSE),
     annotations |-> Get(capture, "annotations", <<>>),
     attempt |-> 0,
     reloads |-> 0,
     serialization |-> FALSE,
     running |-> TRUE]

\* what the page does with a tab: it is visible and the click goes through,
\* it is not visible, or the locator or the click raises
Tabs == {"visible", "not visible", "raises"}

\* click_plugin_tab called with a tab id
click_plugin_tab(tab_id, tab) == tab = "visible"

\* TabClicked without the test `tab_id is not None`
TabClicked_NoNoneTest(capture, tab) ==
    click_plugin_tab(Get(capture, "tab", "None"), tab)

\* capture_admin_tabs goes on to the capture: there is no tab to click
\* (`tab_id is not None` is false), or click_plugin_tab returned True
TabClicked(capture, tab) ==
    "tab" \notin DOMAIN capture \/ click_plugin_tab(capture.tab, tab)

\* CAPTURE_RESULTS["skipped"].append(filename)
Skipped(results, filename) == [results EXCEPT !.skipped = Append(@, filename)]

\* a loop iteration of capture_admin_tabs whose tab click fails
AdminTabSkipped ==
    /\ pc = "for capture in ADMIN_TABS"
    /\ cur < Len(ADMIN_TABS)
    /\ \E tab \in Tabs : ~TabClicked(ADMIN_TABS[cur + 1], tab)
    /\ CAPTURE_RESULTS' = Skipped(CAPTURE_RESULTS, ADMIN_TABS[cur + 1].filename)
    /\ cur' = cur + 1
    /\ frame' = None
    /\ UNCHANGED <<pc, ALL_MCP_COMMANDS, log, writes, translated, exit_code,
                   config_vars, role_vars, extract_vars>>

\* a loop iteration of capture_admin_tabs that reaches capture_screenshot_with_retry
AdminTabCapture ==
    /\ pc = "for capture in ADMIN_TABS"
    /\ cur < Len(ADMIN_TABS)
    /\ \E tab \in Tabs : TabClicked(ADMIN_TABS[cur + 1], tab)
    /\ frame' = NewFrame("capture_admin_tabs", ADMIN_TABS[cur + 1])
    /\ pc' = "capture_screenshot_with_retry"
    /\ UNCHANGED <<ALL_MCP_COMMANDS, CAPTURE_RESULTS, cur, log, writes, translated,
                   exit_code, config_vars, role_vars, extract_vars>>

AdminTabsDone ==
    /\ pc = "for capture in ADMIN_TABS"
    /\ cur = Len(ADMIN_TABS)
    /\ pc' = "capture_frontend_pages"
    /\ cur' = 0
    /\ frame' = None
    /\ UNCHANGED <<ALL_MCP_COMMANDS, CAPTURE_RESULTS, log, writes, translated,
                   exit_code, config_vars, role_vars, extract_vars>>

\* navigate_and_capture: page.goto or wait_for_load_state raises
NavigationFails ==
    /\ pc = "capture_frontend_pages"
    /\ cur < Len(FRONTEND_PAGES)
    /\ CAPTURE_RESULTS' = Failed(CAPTURE_RESULTS, FRONTEND_PAGES[cur + 1].filename)
    /\ log' = Append(log, [filename |-> FRONTEND_PAGES[cur + 1].filename,
                           caller |-> "navigate_and_capture",
                           navigated |-> FALSE, completed |-> FALSE])
    /\ cur' = cur + 1
    /\ frame' = None
    /\ UNCHANGED <<pc, ALL_MCP_COMMANDS, writes, translated, exit_code,
                   config_vars, role_vars, extract_vars>>

\* navigate_and_capture: the page loads, capture_screenshot_with_retry is called
NavigationSucceeds ==
    /\ pc = "capture_frontend_pages"
    /\ cur < Len(FRONTEND_PAGES)
    /\ frame' = NewFrame("navigate_and_capture", FRONTEND_PAGES[cur + 1])
    /\ pc' = "capture_screenshot_with_retry"
    /\ UNCHANGED <<ALL_MCP_COMMANDS, CAPTURE_RESULTS, cur, log, writes, translated,
                   exit_code, config_vars, role_vars, extract_vars>>

\* capture_frontend_pages returns
FrontendPagesDone ==
    /\ pc = "capture_frontend_pages"
    /\ cur = Len(FRONTEND_PAGES)
    /\ pc' = "capture_editor_variations"
    /\ frame' = None
    /\ UNCHANGED <<ALL_MCP_COMMANDS, CAPTURE_RESULTS, cur, log, writes, translated,
                   exit_code, config_vars, role_vars, extract_vars>>

\* capture_editor_variations: `if not EDITOR_TYPES: return`
EditorVariationsEmpty ==
    /\ pc = "capture_editor_variations"
    /\ EDITOR_TYPES = <<>>
    /\ pc' = "capture_role_comparisons"
    /\ UNCHANGED <<ALL_MCP_COMMANDS, CAPTURE_RESULTS, cur, frame, log, writes, translated,
                   exit_code, config_vars, role_vars, extract_vars>>

\* capture_role_comparisons: `if not ROLE_CAPTURES: return`
RoleComparisonsEmpty ==
    /\ pc = "capture_role_comparisons"
    /\ ROLE_CAPTURES = <<>>
    /\ pc' = "context.close()"
    /\ UNCHANGED <<ALL_MCP_COMMANDS, CAPTURE_RESULTS, cur, frame, log, writes, translated,
                   exit_code, config_vars, role_vars, extract_vars>>

\* the capture sequences are over: context.close() returns
ContextCloses ==
    /\ pc = "context.close()"
    /\ pc' = "print_annotation_summary"
    /\ UNCHANGED <<ALL_MCP_COMMANDS, CAPTURE_RESULTS, cur, frame, log, writes, translated,
                   exit_code, config_vars, role_vars, extract_vars>>

\* context.close() raises: `except Exception` of main returns 1
ContextCloseRaises ==
    /\ pc = "context.close()"
    /\ escaped' = TRUE
    /\ exit_code' = Return(1)
    /\ pc' = "exited"
    /\ UNCHANGED <<ALL_MCP_COMMANDS, CAPTURE_RESULTS, cur, frame, log, writes, translated,
                   current_role, switches, logged_in, config_vars, extract_vars>>

\* where capture_screenshot_with_retry returns to
ReturnTo(caller) ==
    IF caller = "capture_admin_tabs" THEN "for capture in ADMIN_TABS"
    ELSE IF caller = "capture_editor_variations" THEN "for editor in EDITOR_TYPES"
    ELSE IF caller = "capture_role_comparisons" THEN "for role in capture['roles']"
    ELSE "capture_frontend_pages"

LogEntry(completed) ==
    [filename |-> frame.filename, caller |-> frame.caller,
     navigated |-> TRUE, completed |-> completed]

\* LastAttempt with the test `attempt < max_retries`
LastAttempt_OneMore(attempt) == ~(attempt < MAX_RETRIES)

\* `attempt < max_retries - 1` is false: the attempt that just failed was the last
LastAttempt(attempt) == ~(attempt < MAX_RETRIES - 1)

\* the frame after one more call of capture_screenshot
Tried(out) ==
    [frame EXCEPT !.attempt = @ + 1, !.serialization = @ \/ out.serialization]

\* one iteration of `for attempt in range(max_retries)`: capture_screenshot returns
AttemptReturns ==
    /\ pc = "capture_screenshot_with_retry"
    /\ frame.attempt < MAX_RETRIES
    /\ \E els \in [1..Len(frame.annotations) -> SessionElements] :
       \E fault \in Faults(frame.annotations,
                           extract_annotations(frame.annotations, els).mcp_annotations) :
         LET out == capture_screenshot(frame.filename, frame.full_page,
                                       frame.annotations, els, fault)
         IN  /\ ~out.raised
             /\ writes' = writes \o out.writes
             /\ ALL_MCP_COMMANDS' = ALL_MCP_COMMANDS \o out.commands
             /\ CAPTURE_RESULTS' =
                    [CAPTURE_RESULTS EXCEPT !.success = @ \o out.success]
             /\ translated' = translated \cup out.translated
             /\ frame' = [Tried(out) EXCEPT !.running = FALSE]
                             @@ [result |-> out.result]
    /\ log' = Append(log, LogEntry(TRUE))
    /\ pc' = ReturnTo(frame.caller)
    /\ cur' = cur + 1
    /\ UNCHANGED <<exit_code, config_vars, role_vars, extract_vars>>

\* one iteration of `for attempt in range(max_retries)`: capture_screenshot
\* raises; the page is reloaded for another attempt, or the capture has failed
AttemptRaises ==
    /\ pc = "capture_screenshot_with_retry"
    /\ frame.attempt < MAX_RETRIES
    /\ \E els \in [1..Len(frame.annotations) -> SessionElements] :
       \E fault \in Faults(frame.annotations,
                           extract_annotations(frame.annotations, els).mcp_annotations) :
         LET out == capture_screenshot(frame.filename, frame.full_page,
                                       frame.annotations, els, fault)
             tracked == [CAPTURE_RESULTS EXCEPT !.success = @ \o out.success]
         IN  /\ out.raised
             /\ writes' = writes \o out.writes
             /\ ALL_MCP_COMMANDS' = ALL_MCP_COMMANDS \o out.commands
             /\ translated' = translated \cup out.translated
             /\ IF LastAttempt(frame.attempt)
                THEN /\ CAPTURE_RESULTS' = Failed(tracked, frame.filename)
                     /\ frame' = [Tried(out) EXCEPT !.running = FALSE]
                                     @@ [result |-> None]
                     /\ log' = Append(log, LogEntry(FALSE))
                     /\ pc' = ReturnTo(frame.caller)
                     /\ cur' = cur + 1
                ELSE /\ CAPTURE_RESULTS' = tracked
                     /\ frame' = [Tried(out) EXCEPT !.reloads = @ + 1]
                     /\ UNCHANGED <<pc, cur, log>>
    /\ UNCHANGED <<exit_code, config_vars, role_vars, extract_vars>>

\* ExitCode with the skipped captures counted as failures
ExitCode_SkippedCount(results) ==
    IF results.failed # <<>> \/ results.skipped # <<>> THEN 1 ELSE 0

\* `if CAPTURE_RESULTS["failed"]: return 1` and `return 0`
ExitCode(results) == IF results.failed # <<>> THEN 1 ELSE 0

\* print_capture_summary, print_annotation_summary, and main returns
SummaryReturns ==
    /\ pc = "print_annotation_summary"
    /\ writes' = IF ALL_MCP_COMMANDS # <<>>
                 THEN Append(writes, BatchFile(ALL_MCP_COMMANDS))
                 ELSE writes
    /\ exit_code' = Return(ExitCode(CAPTURE_RESULTS))
    /\ pc' = "exited"
    /\ UNCHANGED <<ALL_MCP_COMMANDS, CAPTURE_RESULTS, cur, frame, log, translated,
                   config_vars, role_vars, extract_vars>>

\* generate_mcp_batch_file raises: nothing catches it, main does not return
SummaryRaises ==
    /\ pc = "print_annotation_summary"
    /\ ALL_MCP_COMMANDS # <<>>
    /\ pc' = "raised"
    /\ UNCHANGED <<ALL_MCP_COMMANDS, CAPTURE_RESULTS, cur, frame, log, writes, translated,
                   exit_code, config_vars, role_vars, extract_vars>>

\* main() is called again in the same process
MainAgain ==
    /\ pc = "exited"
    /\ pc' = "main"
    /\ UNCHANGED <<ALL_MCP_COMMANDS, CAPTURE_RESULTS, cur, frame, log, writes, translated,
                   exit_code, config_vars, role_vars, extract_vars>>

NextSession ==
    \/ MainSetup
    \/ SetupRaises
    \/ LoginSucceeds
    \/ LoginFails
    \/ BrowserLaunchRaises
    \/ AdminTabsNotLoaded
    \/ AdminTabsLoaded
    \/ AdminTabSkipped
    \/ AdminTabCapture
    \/ AdminTabsDone
    \/ NavigationFails
    \/ NavigationSucceeds
    \/ FrontendPagesDone
    \/ EditorVariationsEmpty
    \/ RoleComparisonsEmpty
    \/ ContextCloses
    \/ ContextCloseRaises
    \/ AttemptReturns
    \/ AttemptRaises
    \/ SummaryReturns
    \/ SummaryRaises
    \/ MainAgain

SpecSession == InitSession /\ [][NextSession]_vars

-----------------------------------------------------------------------------
(* main() with editor types and role captures configured *)

ROLES ==
    [admin |-> [user_id |-> 1, username |-> "admin"],
     subscriber |-> [user_id |-> 2, username |-> "test_member"],
     author |-> [user_id |-> 3, username |-> "test_author"]]

\* url.replace('{username}', username), on the urls of the configuration
replace_username(url, username) ==
    IF url = "/members/{username}/blog/"
    THEN "/members/" \o username \o "/blog/"
    ELSE url

\* the url navigate_and_capture goes to (after the site's base url) when
\* current_role is role
NavigatedUrl(url, role) ==
    replace_username(url, Get(Get(ROLES, role, <<>>), "username", ""))

\* capture['filename_pattern'].format(role=role)
format_role(filename_pattern, role) ==
    IF filename_pattern = "dashboard-{role}.png"
    THEN "dashboard-" \o role \o ".png"
    ELSE filename_pattern

\* the iterations of the two nested loops of capture_role_comparisons, in order
RECURSIVE RoleIterations(_)
RoleIterations(captures) ==
    IF captures = <<>> THEN <<>>
    ELSE [k \in 1..Len(Head(captures).roles) |->
              [capture |-> Head(captures), role |-> Head(captures).roles[k]]]
         \o RoleIterations(Tail(captures))

\* SwitchedRole with the role assigned before switch_user is tested
SwitchedRole_Always(ok, role, current) == role

\* `if switch_user(page, role): navigate_and_capture.current_role = role`
SwitchedRole(ok, role, current) == IF ok THEN role ELSE current

\* the EDITOR_TYPES entry at position k
EditorNames == <<"editorjs", "medium", "classic">>
Editors(k) ==
    [type |-> EditorNames[k], filename |-> "form-" \o EditorNames[k] \o ".png"]

\* the role lists of a role capture: up to MaxRoles different roles
RoleLists ==
    UNION {{r \in [1..n -> DOMAIN ROLES] : \A j, k \in 1..n : j # k => r[j] # r[k]} :
              n \in 1..MaxRoles}

\* sessions with the admin tab and frontend page lists configured, or with
\* the editor type and role capture lists configured
InitSequences ==
    /\ pc = "main"
    /\ \/ /\ ADMIN_TABS = <<[filename |-> "admin-1.png", tab |-> "general"]>>
          /\ FRONTEND_PAGES =
                <<[url |-> "/members/{username}/blog/", filename |-> "page-1.png",
                   annotations |-> <<[selector |-> "#el", type |-> "number"]>>]>>
          /\ EDITOR_TYPES = <<>>
          /\ ROLE_CAPTURES = <<>>
       \/ /\ ADMIN_TABS = <<>>
          /\ FRONTEND_PAGES = <<>>
          /\ EDITOR_TYPES \in {[k \in 1..n |-> Editors(k)] : n \in 0..MaxEditors}
          /\ ROLE_CAPTURES \in
                {<<>>} \cup {<<[url |-> "/members/{username}/blog/", roles |-> r,
                                filename_pattern |-> "dashboard-{role}.png"]>> :
                                r \in RoleLists}
    /\ current_role = "admin"
    /\ switches = <<>>
    /\ logged_in = FALSE
    /\ escaped = FALSE
    /\ ALL_MCP_COMMANDS = <<>>
    /\ CAPTURE_RESULTS = NoResults
    /\ cur = 0
    /\ frame = None
    /\ log = <<>>
    /\ writes = <<>>
    /\ translated = {}
    /\ exit_code = None
    /\ args = None
    /\ ret = None
    /\ annotations = <<>>
    /\ i = 0
    /\ extracted = <<>>
    /\ mcp_annotations = <<>>
    /\ elements = <<>>
    /\ calls = <<>>

\* capture_editor_variations: EDITOR_TYPES is not empty
EditorVariationsStart ==
    /\ pc = "capture_editor_variations"
    /\ EDITOR_TYPES # <<>>
    /\ pc' = "for editor in EDITOR_TYPES"
    /\ cur' = 0
    /\ frame' = None
    /\ UNCHANGED <<ALL_MCP_COMMANDS, CAPTURE_RESULTS, log, writes, translated,
                   exit_code, config_vars, role_vars, extract_vars>>

\* set_editor_type: page.goto or wait_for_load_state raises, outside any try
\* of the sequence: `except Exception` of main returns 1
EditorSetRaises ==
    /\ pc = "for editor in EDITOR_TYPES"
    /\ cur < Len(EDITOR_TYPES)
    /\ escaped' = TRUE
    /\ exit_code' = Return(1)
    /\ pc' = "exited"
    /\ UNCHANGED <<ALL_MCP_COMMANDS, CAPTURE_RESULTS, cur, frame, log, writes, translated,
                   current_role, switches, logged_in, config_vars, extract_vars>>

\* set_editor_type returns; navigate_and_capture: page.goto raises
EditorNavigationFails ==
    /\ pc = "for editor in EDITOR_TYPES"
    /\ cur < Len(EDITOR_TYPES)
    /\ CAPTURE_RESULTS' = Failed(CAPTURE_RESULTS, EDITOR_TYPES[cur + 1].filename)
    /\ log' = Append(log, [filename |-> EDITOR_TYPES[cur + 1].filename,
                           caller |-> "capture_editor_variations",
                           navigated |-> FALSE, completed |-> FALSE])
    /\ cur' = cur + 1
    /\ frame' = None
    /\ UNCHANGED <<pc, ALL_MCP_COMMANDS, writes, translated, exit_code,
                   config_vars, role_vars, extract_vars>>

\* set_editor_type returns; navigate_and_capture: the page loads
EditorNavigationSucceeds ==
    /\ pc = "for editor in EDITOR_TYPES"
    /\ cur < Len(EDITOR_TYPES)
    /\ frame' = NewFrame("capture_editor_variations",
                         Update(EDITOR_TYPES[cur + 1], [full_page |-> TRUE]))
    /\ pc' = "capture_screenshot_with_retry"
    /\ UNCHANGED <<ALL_MCP_COMMANDS, CAPTURE_RESULTS, cur, log, writes, translated,
                   exit_code, config_vars, role_vars, extract_vars>>

\* capture_editor_variations returns
EditorVariationsDone ==
    /\ pc = "for editor in EDITOR_TYPES"
    /\ cur = Len(EDITOR_TYPES)
    /\ pc' = "capture_role_comparisons"
    /\ frame' = None
    /\ UNCHANGED <<ALL_MCP_COMMANDS, CAPTURE_RESULTS, cur, log, writes, translated,
                   exit_code, config_vars, role_vars, extract_vars>>

\* capture_role_comparisons: ROLE_CAPTURES is not empty
RoleComparisonsStart ==
    /\ pc = "capture_role_comparisons"
    /\ ROLE_CAPTURES # <<>>
    /\ pc' = "for role in capture['roles']"
    /\ cur' = 0
    /\ frame' = None
    /\ UNCHANGED <<ALL_MCP_COMMANDS, CAPTURE_RESULTS, log, writes, translated,
                   exit_code, config_vars, role_vars, extract_vars>>

\* an iteration in which switch_user returns False
RoleSwitchFails ==
    /\ pc = "for role in capture['roles']"
    /\ cur < Len(RoleIterations(ROLE_CAPTURES))
    /\ LET it == RoleIterations(ROLE_CAPTURES)[cur + 1]
       IN  /\ switches' = Append(switches, [role |-> it.role, ok |-> FALSE, url |-> ""])
           /\ current_role' = SwitchedRole(FALSE, it.role, current_role)
    /\ cur' = cur + 1
    /\ frame' = None
    /\ UNCHANGED <<pc, ALL_MCP_COMMANDS, CAPTURE_RESULTS, log, writes, translated,
                   exit_code, logged_in, escaped, config_vars, extract_vars>>

\* an iteration in which switch_user returns True and navigate_and_capture's
\* page.goto raises
RoleNavigationFails ==
    /\ pc = "for role in capture['roles']"
    /\ cur < Len(RoleIterations(ROLE_CAPTURES))
    /\ LET it == RoleIterations(ROLE_CAPTURES)[cur + 1]
           role == SwitchedRole(TRUE, it.role, current_role)
           filename == format_role(it.capture.filename_pattern, it.role)
       IN  /\ switches' = Append(switches, [role |-> it.role, ok |-> TRUE,
                                            url |-> NavigatedUrl(it.capture.url, role)])
           /\ current_role' = role
           /\ CAPTURE_RESULTS' = Failed(CAPTURE_RESULTS, filename)
           /\ log' = Append(log, [filename |-> filename,
                                  caller |-> "capture_role_comparisons",
                                  navigated |-> FALSE, completed |-> FALSE])
    /\ cur' = cur + 1
    /\ frame' = None
    /\ UNCHANGED <<pc, ALL_MCP_COMMANDS, writes, translated, exit_code, logged_in,
                   escaped, config_vars, extract_vars>>

\* an iteration in which switch_user returns True and the page loads
RoleNavigationSucceeds ==
    /\ pc = "for role in capture['roles']"
    /\ cur < Len(RoleIterations(ROLE_CAPTURES))
    /\ LET it == RoleIterations(ROLE_CAPTURES)[cur + 1]
           role == SwitchedRole(TRUE, it.role, current_role)
           filename == format_role(it.capture.filename_pattern, it.role)
       IN  /\ switches' = Append(switches, [role |-> it.role, ok |-> TRUE,
                                            url |-> NavigatedUrl(it.capture.url, role)])
           /\ current_role' = role
           /\ frame' = NewFrame("capture_role_comparisons",
                                Update(it.capture, [filename |-> filename]))
    /\ pc' = "capture_screenshot_with_retry"
    /\ UNCHANGED <<ALL_MCP_COMMANDS, CAPTURE_RESULTS, cur, log, writes, translated,
                   exit_code, logged_in, escaped, config_vars, extract_vars>>

\* capture_role_comparisons returns
RoleComparisonsDone ==
    /\ pc = "for role in capture['roles']"
    /\ cur = Len(RoleIterations(ROLE_CAPTURES))
    /\ pc' = "context.close()"
    /\ frame' = None
    /\ UNCHANGED <<ALL_MCP_COMMANDS, CAPTURE_RESULTS, cur, log, writes, translated,
                   exit_code, config_vars, role_vars, extract_vars>>

NextSequences ==
    \/ NextSession
    \/ EditorVariationsStart
    \/ EditorSetRaises
    \/ EditorNavigationFails
    \/ EditorNavigationSucceeds
    \/ EditorVariationsDone
    \/ RoleComparisonsStart
    \/ RoleSwitchFails
    \/ RoleNavigationFails
    \/ RoleNavigationSucceeds
    \/ RoleComparisonsDone

SpecSequences == InitSequences /\ [][NextSequences]_vars

-----------------------------------------------------------------------------
(* main() over admin tabs *)

\* the ADMIN_TABS entries at position k that differ in having a tab
TabCaptures(k) ==
    {Update([filename |-> "admin-" \o Digits[k] \o ".png"], t) :
        t \in {<<>>, [tab |-> "general"]}}

\* a session over up to MaxTabs admin tabs and one annotated frontend page
InitAdminTabs ==
    /\ pc = "main"
    /\ ADMIN_TABS \in UNION {{c \in [1..n -> UNION {TabCaptures(k) : k \in 1..n}] :
                                 \A k \in 1..n : c[k] \in TabCaptures(k)} : n \in 0..MaxTabs}
    /\ FRONTEND_PAGES = <<[url |-> "/members/{username}/blog/", filename |-> "page-1.png",
                           annotations |-> <<[selector |-> "#el", type |-> "number"]>>]>>
    /\ EDITOR_TYPES = <<>>
    /\ ROLE_CAPTURES = <<>>
    /\ current_role = "admin"
    /\ switches = <<>>
    /\ logged_in = FALSE
    /\ escaped = FALSE
    /\ ALL_MCP_COMMANDS = <<>>
    /\ CAPTURE_RESULTS = NoResults
    /\ cur = 0
    /\ frame = None
    /\ log = <<>>
    /\ writes = <<>>
    /\ translated = {}
    /\ exit_code = None
    /\ args = None
    /\ ret = None
    /\ annotations = <<>>
    /\ i = 0
    /\ extracted = <<>>
    /\ mcp_annotations = <<>>
    /\ elements = <<>>
    /\ calls = <<>>

SpecAdminTabs == InitAdminTabs /\ [][NextSession]_vars

-----------------------------------------------------------------------------
(* Properties of the translator (checked under SpecTranslate) *)

Returned == pc = "returned"
B == args.bounds
Primary == Pop(ret, "_label")
HasLabel == "_label" \in DOMAIN ret

\* C1: a semantic type outside TYPE_MAPPING's keys is rejected with an error
\* naming it: the call never returns a command whose type is the unknown string.
C1_UnknownTypeRejected ==
    (Returned /\ args.ann_type \notin DOMAIN TYPE_MAPPING)
        => /\ "type" \notin DOMAIN ret
           /\ "error" \in DOMAIN ret

\* C4 as stated: the arrow's label lies 10px from the origin point, displaced
\* along the arrow's axis away from the element (opposite the arrowhead).
Sgn(n) == IF n > 0 THEN 1 ELSE IF n < 0 THEN -1 ELSE 0

C5_ArrowPoints ==
    (Returned /\ args.ann_type = "arrow")
        => /\ args.position = "left" =>
                /\ ret.from = <<B.x - 100, B.center_y>>
                /\ ret.to = <<B.x - 5, B.center_y>>
           /\ args.position \in {"right", "auto"} =>
                /\ ret.from = <<B.x + B.width + 100, B.center_y>>
                /\ ret.to = <<B.x + B.width + 5, B.center_y>>
           /\ args.position = "top" =>
                /\ ret.from = <<B.center_x, B.y - 100>>
                /\ ret.to = <<B.center_x, B.y - 5>>
           /\ args.position = "bottom" =>
                /\ ret.from = <<B.center_x, B.y + B.height + 100>>
                /\ ret.to = <<B.center_x, B.y + B.height + 5>>
           /\ ret.type = "arrow"

C5_Witness ==
    /\ Returned /\ args.ann_type = "arrow" /\ args.position = "auto"
    /\ B.x = 100 /\ B.y = 200 /\ B.width = 50 /\ B.height = 20
    /\ ret.from = <<250, 210>> /\ ret.to = <<155, 210>>

\* C6: a box request yields the rect primitive (x-4, y-4, w+8, h+8) with
\* strokeWidth 3, whatever the label and position.
C6_BoxRect ==
    (Returned /\ args.ann_type = "box")
        => /\ ret.type = "rect"
           /\ ret.x = B.x - 4 /\ ret.y = B.y - 4
           /\ ret.width = B.width + 8 /\ ret.height = B.height + 8
           /\ ret.strokeWidth = 3

C6_Witness ==
    /\ Returned /\ args.ann_type = "box" /\ args.label = "" /\ args.position = "left"
    /\ B.x = -1 /\ B.width = 1 /\ ret.x = -5 /\ ret.width = 9

\* C7: a labelled box has its label at (centerX, y-25) for top, (centerX, y+h+20)
\* for bottom, (x-10, centerY) for left and (x+w+15, centerY) for right or auto,
\* measured from the un-inflated rect; rect {100,200,50,20}, "Save", top gives
\* the rect {96,196,58,28} and the label at (125, 175).
C7_BoxLabel ==
    (Returned /\ args.ann_type = "box" /\ args.label # "")
        => /\ HasLabel
           /\ ret["_label"].type = "label"
           /\ ret["_label"].text = args.label
           /\ <<ret["_label"].x, ret["_label"].y>> =
                CASE args.position = "top" -> <<B.center_x, B.y - 25>>
                  [] args.position = "bottom" -> <<B.center_x, B.y + B.height + 20>>
                  [] args.position = "left" -> <<B.x - 10, B.center_y>>
                  [] args.position \in {"right", "auto"} ->
                        <<B.x + B.width + 15, B.center_y>>
           /\ (/\ B.x = 100 /\ B.y = 200 /\ B.width = 50 /\ B.height = 20
               /\ args.position = "top")
                => /\ <<ret.x, ret.y, ret.width, ret.height>> = <<96, 196, 58, 28>>
                   /\ <<ret["_label"].x, ret["_label"].y>> = <<125, 175>>

C7_Witness ==
    /\ Returned /\ args.ann_type = "box" /\ args.label = "Save"
    /\ args.position = "top"
    /\ B.x = 100 /\ B.y = 200 /\ B.width = 50 /\ B.height = 20
    /\ HasLabel /\ ret["_label"].y = 175

\* C8: a circle request yields a circle centred at (centerX, centerY) with
\* radius floor(max(w, h) / 2) + 8 and strokeWidth 3.
C8_CircleRadius ==
    (Returned /\ args.ann_type = "circle")
        => /\ ret.type = "circle"
           /\ ret.x = B.center_x /\ ret.y = B.center_y
           /\ \E m \in {B.width, B.height} :
                /\ m >= B.width /\ m >= B.height
                /\ 2 * (ret.radius - 8) <= m
                /\ m < 2 * (ret.radius - 8) + 2
           /\ ret.strokeWidth = 3

C8_Witness ==
    /\ Returned /\ args.ann_type = "circle"
    /\ B.width = 50 /\ B.height = 20 /\ ret.radius = 33

\* C9: a labelled circle has its label at (centerX + radius + 15, centerY),
\* radius being the circle command's, whatever the position.
C9_CircleLabel ==
    (Returned /\ args.ann_type = "circle" /\ args.label # "")
        => /\ HasLabel
           /\ ret["_label"].text = args.label
           /\ ret["_label"].x = B.center_x + ret.radius + 15
           /\ ret["_label"].y = B.center_y

C9_Witness ==
    /\ Returned /\ args.ann_type = "circle" /\ args.label = "Save"
    /\ args.position = "left" /\ B.center_x = 125 /\ ret["_label"].x = 173

\* C10: a highlight request covers exactly the input rect, with colour yellow
\* and opacity 0.35, whatever the label, position and number.
C10_Highlight ==
    (Returned /\ args.ann_type = "highlight")
        => ret = [type |-> "highlight", x |-> B.x, y |-> B.y, width |-> B.width,
                  height |-> B.height, color |-> "yellow", opacity |-> 35]

C10_Witness ==
    /\ Returned /\ args.ann_type = "highlight" /\ args.label = "Save"
    /\ args.position = "top" /\ args.number = 7
    /\ ret.color = "yellow" /\ ret.x = 100

\* C11: a callout request is anchored at the rect centre with text = label and
\* pointer the opposite of position (top<->bottom, left<->right); with position
\* auto (the value an unset position takes) the pointer is "left".
C11_CalloutPointer ==
    (Returned /\ args.ann_type = "callout")
        => /\ ret.type = "callout"
           /\ ret.x = B.center_x /\ ret.y = B.center_y
           /\ ret.text = args.label
           /\ ret.pointer =
                CASE args.position = "top" -> "bottom"
                  [] args.position = "bottom" -> "top"
                  [] args.position = "left" -> "right"
                  [] args.position = "right" -> "left"
                  [] args.position = "auto" -> "left"
           /\ ~HasLabel

C11_Witness ==
    /\ Returned /\ args.ann_type = "callout" /\ args.label = "Save"
    /\ args.position = "top" /\ ret.pointer = "bottom"
    /\ B.x = 100 /\ B.y = 200 /\ ret.x = 125 /\ ret.y = 210

\* C14: the colour of a command is fixed by its primitive kind: marker, arrow
\* and callout carry "primary", rect and circle "red", highlight "yellow", and
\* label commands, primary or auxiliary, "darkGray".
KindColor ==
    [marker |-> "primary", arrow |-> "primary", callout |-> "primary",
     rect |-> "red", circle |-> "red", highlight |-> "yellow", label |-> "darkGray"]

C14_ColorPerKind ==
    Returned
        => /\ ret.type \in DOMAIN KindColor => ret.color = KindColor[ret.type]
           /\ args.ann_type \in {"number", "arrow", "callout"} => ret.color = "primary"
           /\ args.ann_type \in {"box", "circle"} => ret.color = "red"
           /\ args.ann_type = "highlight" => ret.color = "yellow"
           /\ args.ann_type = "label" => ret.color = "darkGray"
           /\ HasLabel => ret["_label"].color = "darkGray"

C14_Witness ==
    /\ Returned /\ args.ann_type = "arrow" /\ args.label = "Save"
    /\ ret.color = "primary" /\ ret["_label"].color = "darkGray"
    /\ args.position = "bottom" /\ args.number = 7

-----------------------------------------------------------------------------
(* Properties of extract_annotations (checked under Spec) *)

\* the element is not found or not visible
NotFound(el) == el.raises \/ ~el.visible \/ el.box = None

FoundIndices == {k \in 1..Len(elements) : ~NotFound(elements[k])}

\* C2: a request whose element is not found or not visible is recorded with
\* found = False and bounds = None and is not translated; the other requests
\* are still processed, and the metadata list has one record per request in
\* batch order.
C2_NotFoundIsSkipped ==
    /\ Len(extracted) = i
    /\ Len(elements) = i
    /\ \A k \in 1..i :
         /\ extracted[k].index = k
         /\ extracted[k].type = Get(annotations[k], "type", "box")
         /\ extracted[k].label = Get(annotations[k], "label", "")
         /\ NotFound(elements[k]) =>
              /\ extracted[k].found = FALSE
              /\ extracted[k].bounds = None
              /\ \A c \in 1..Len(calls) : calls[c].index # k
         /\ ~NotFound(elements[k]) =>
              /\ extracted[k].found = TRUE
              /\ \E c \in 1..Len(calls) : calls[c].index = k
    /\ Len(calls) = Cardinality(FoundIndices)
    /\ Len(mcp_annotations) >= Len(calls)
    /\ Len(mcp_annotations) <= 2 * Len(calls)
    /\ pc = "extract_annotations" => ENABLED Next
    /\ Returned => Len(extracted) = Len(annotations)

C2_Witness ==
    /\ Returned
    /\ Len(annotations) = 3
    /\ ~elements[1].visible /\ ~elements[1].raises
    /\ ~NotFound(elements[2])
    /\ elements[3].raises
    /\ Len(extracted) = 3
    /\ extracted[1].found = FALSE /\ extracted[2].found = TRUE
    /\ Len(calls) = 1

\* C3: a request at 1-based position k without an explicit number is
\* translated with number k, whatever happened to the earlier requests; an
\* explicit number is used unchanged; three number requests without numbers
\* yield the markers 1, 2, 3.
C3_NumberDefaultsToPosition ==
    /\ \A c \in 1..Len(calls) :
         LET k == calls[c].index
         IN  /\ calls[c].number =
                    IF "number" \in DOMAIN annotations[k] THEN annotations[k].number ELSE k
             /\ extracted[k].number = calls[c].number
    /\ (/\ Returned
        /\ \A k \in 1..Len(annotations) :
             /\ Get(annotations[k], "type", "box") = "number"
             /\ "number" \notin DOMAIN annotations[k])
       => \A c \in 1..Len(calls) :
             /\ mcp_annotations[c].type = "marker"
             /\ mcp_annotations[c].number = calls[c].index

C3_Witness ==
    /\ Returned
    /\ Len(annotations) = 3
    /\ \A k \in 1..3 : annotations[k] = [selector |-> "#el", type |-> "number"]
    /\ Len(mcp_annotations) = 3
    /\ \A k \in 1..3 : mcp_annotations[k].number = k

\* a batch where an earlier request is not found and a later one is numbered
C3_WitnessAfterNotFound ==
    /\ Returned
    /\ Len(annotations) = 3
    /\ NotFound(elements[1]) /\ ~NotFound(elements[3])
    /\ "number" \notin DOMAIN annotations[3]
    /\ Get(annotations[3], "type", "box") = "number"
    /\ mcp_annotations[Len(mcp_annotations)].number = 3

-----------------------------------------------------------------------------
(* Properties of extract_annotations over every type (checked under SpecAllTypes) *)

\* the translated request c is one that gets an auxiliary label
WantsLabel(c) == calls[c].ann_type \in {"box", "arrow", "circle"} /\ calls[c].label # ""

\* where the primary command of the translated request c sits in mcp_annotations
CommandIndex(c) == c + Cardinality({d \in 1..(c - 1) : WantsLabel(d)})

\* C12: every found request yields one primary command plus at most one
\* auxiliary label command, the label being there exactly when the type is box,
\* arrow or circle and the label is non-empty; so f found requests give between
\* f and 2f commands.
C12_OnePrimaryAtMostOneLabel ==
    /\ Len(calls) = Cardinality(FoundIndices)
    /\ Len(mcp_annotations) =
            Len(calls) + Cardinality({c \in 1..Len(calls) : WantsLabel(c)})
    /\ Len(mcp_annotations) >= Cardinality(FoundIndices)
    /\ Len(mcp_annotations) <= 2 * Cardinality(FoundIndices)
    /\ \A c \in 1..Len(calls) :
         LET n == CommandIndex(c)
         IN  /\ mcp_annotations[n].type =
                    Get(TYPE_MAPPING, calls[c].ann_type, calls[c].ann_type)
             /\ "_label" \notin DOMAIN mcp_annotations[n]
             /\ WantsLabel(c) =>
                    /\ mcp_annotations[n + 1].type = "label"
                    /\ mcp_annotations[n + 1].text = calls[c].label

C12_Witness ==
    /\ Returned
    /\ Len(annotations) = 2
    /\ annotations[1] = [selector |-> "#el", type |-> "circle", label |-> "Save"]
    /\ annotations[2] = [selector |-> "#el", type |-> "callout", label |-> "Save"]
    /\ Len(calls) = 2
    /\ Len(mcp_annotations) = 3
    /\ mcp_annotations[2].type = "label" /\ mcp_annotations[3].type = "callout"

-----------------------------------------------------------------------------
(* Properties of the returned command list (checked under Spec) *)

\* what convert_to_mcp_format gives for the translated request c
Converted(c) ==
    convert_to_mcp_format(calls[c].ann_type, calls[c].bounds, calls[c].label,
                          calls[c].position, calls[c].number)

\* where the commands of the translated request c start in mcp_annotations
StartOf(c) ==
    c + Cardinality({d \in 1..(c - 1) : "_label" \in DOMAIN Converted(d)})

\* C23: the found requests are translated in batch order, and the command
\* list holds their commands in that order: the primary command of each,
\* without the "_label" key, followed at once by its label command if it has
\* one, then the commands of the next found request. No command of the list
\* has a "_label" key.
C23_CommandsInRequestOrder ==
    /\ \A c, d \in 1..Len(calls) : c < d => calls[c].index < calls[d].index
    /\ \A c \in 1..Len(calls) : ~NotFound(elements[calls[c].index])
    /\ \A c \in 1..Len(calls) :
         /\ StartOf(c) <= Len(mcp_annotations)
         /\ mcp_annotations[StartOf(c)] = Pop(Converted(c), "_label")
         /\ "_label" \in DOMAIN Converted(c) =>
              /\ StartOf(c) + 1 <= Len(mcp_annotations)
              /\ mcp_annotations[StartOf(c) + 1] = Converted(c)["_label"]
    /\ Len(mcp_annotations) = StartOf(Len(calls) + 1) - 1
    /\ \A n \in 1..Len(mcp_annotations) : "_label" \notin DOMAIN mcp_annotations[n]

C23_Witness ==
    /\ Returned
    /\ Len(annotations) = 3
    /\ annotations[1] = [selector |-> "#el", label |-> "Save"]
    /\ NotFound(elements[2])
    /\ annotations[3] = [selector |-> "#el", type |-> "number"]
    /\ Len(mcp_annotations) = 3
    /\ mcp_annotations[1].type = "rect"
    /\ mcp_annotations[2].type = "label"
    /\ mcp_annotations[3].type = "marker"
    /\ mcp_annotations[3].number = 3

-----------------------------------------------------------------------------
(* Properties of a capture session (checked under SpecSession) *)

\* the call of capture_screenshot_with_retry in frame has returned
CallReturned == frame # None /\ ~frame.running

\* filenames of the log entries with the given outcome, in call order
Logged(completed) ==
    LET kept == SelectSeq(log, LAMBDA e : e.completed = completed)
    IN  [k \in 1..Len(kept) |-> kept[k].filename]

\* the elements of a sequence
Range(seq) == {seq[k] : k \in 1..Len(seq)}

Last(seq) == seq[Len(seq)]

\* the call in frame ended with its filename appended to the given list
RecordedLast(list) ==
    /\ CAPTURE_RESULTS[list] # <<>>
    /\ Last(CAPTURE_RESULTS[list]) = frame.filename

\* C15 as stated: a capture in which a json.dump of save_metadata failed ends
\* recorded as failed, and the session goes on with the remaining captures.
C15_SerializationFailureEndsFailed ==
    (CallReturned /\ frame.serialization) =>
        /\ frame.result = None
        /\ RecordedLast("failed")
        /\ pc = ReturnTo(frame.caller)

\* C15, amended: a json.dump failure of save_metadata fails only the attempt
\* it happens in. The capture is attempted again after a reload; it ends
\* recorded as success when a later attempt completes, and as failed only when
\* all MAX_RETRIES attempts failed. Either way the calling sequence goes on,
\* and a session that reaches the summary has attempted every configured
\* page.
C15_SerializationFailureFailsTheAttempt ==
    /\ (CallReturned /\ frame.serialization) =>
        /\ frame.result # None =>
              /\ frame.attempt >= 2
              /\ frame.reloads >= 1
              /\ RecordedLast("success")
              /\ frame.filename \notin Range(CAPTURE_RESULTS.failed)
        /\ frame.result = None =>
              /\ frame.attempt = MAX_RETRIES
              /\ RecordedLast("failed")
              /\ frame.filename \notin Range(CAPTURE_RESULTS.success)
        /\ pc = ReturnTo(frame.caller)
    /\ pc = "print_annotation_summary" =>
        \A k \in 1..Len(FRONTEND_PAGES) :
            FRONTEND_PAGES[k].filename \in
                Range(CAPTURE_RESULTS.success) \cup Range(CAPTURE_RESULTS.failed)

C15_Witness ==
    /\ CallReturned
    /\ frame.caller = "capture_admin_tabs"
    /\ frame.serialization
    /\ frame.result = Return(join(OUTPUT_DIR, "admin-1.png"))
    /\ CAPTURE_RESULTS.success = <<"admin-1.png">>
    /\ CAPTURE_RESULTS.failed = <<>>
    /\ Len(FRONTEND_PAGES) = 1
    /\ pc = "for capture in ADMIN_TABS"

\* the command files written so far: per image, and the aggregate batch file
IsBatchFile(w) == w.path = join(METADATA_DIR, "_batch_annotate.json")
PerImageWrites == SelectSeq(writes, LAMBDA w : ~IsBatchFile(w))
BatchWrites == SelectSeq(writes, IsBatchFile)

\* position of an element in a sequence that holds it
IndexOf(seq, v) == CHOOSE n \in 1..Len(seq) : seq[n] = v

\* the successfully captured images whose input path is p
ImagesAt(p) ==
    {f \in Range(CAPTURE_RESULTS.success) : p = abspath(join(OUTPUT_DIR, f))}

\* C16 as stated: when a session that captured images has ended, one command
\* object {tool, input_path, output_path, theme, annotations} was written for
\* every captured image, and the batch file lists these objects, one per
\* image, in capture order.
C16_CommandPerCapturedImage ==
    (pc = "exited" /\ CAPTURE_RESULTS.success # <<>>) =>
        /\ Len(PerImageWrites) = Len(CAPTURE_RESULTS.success)
        /\ \A k \in 1..Len(PerImageWrites) :
             /\ DOMAIN PerImageWrites[k].content =
                    {"tool", "input_path", "output_path", "theme", "annotations"}
             /\ PerImageWrites[k].content.tool = "annotate_screenshot"
             /\ PerImageWrites[k].content.input_path =
                    abspath(join(OUTPUT_DIR, CAPTURE_RESULTS.success[k]))
        /\ Len(BatchWrites) = 1
        /\ BatchWrites[1].content.commands =
                [k \in 1..Len(PerImageWrites) |-> PerImageWrites[k].content]

\* C16, amended: a per-image command object {tool: "annotate_screenshot",
\* input_path, output_path, theme: "documentation", annotations} is written
\* once for every successfully captured image that has at least one drawing
\* command (none for an image without annotations or with no element found).
\* ALL_MCP_COMMANDS holds, for the same images in capture order, an entry
\* {input_path, output_path, annotations} without tool and theme, whose
\* output_path is under the absolute annotated directory. The batch file is
\* written at the end of the session, once, with ALL_MCP_COMMANDS as its
\* commands, and only when ALL_MCP_COMMANDS is not empty and main reaches its
\* summary.
C16_CommandPerAnnotatedImage ==
    /\ Len(PerImageWrites) = Len(ALL_MCP_COMMANDS)
    /\ \A k \in 1..Len(ALL_MCP_COMMANDS) :
         LET e == ALL_MCP_COMMANDS[k]
             w == PerImageWrites[k]
         IN  /\ DOMAIN e = {"input_path", "output_path", "annotations"}
             /\ e.annotations # <<>>
             /\ \E f \in ImagesAt(e.input_path) :
                  /\ e.output_path = join(abspath(ANNOTATED_DIR), f)
                  /\ w.path = join(METADATA_DIR, splitext0(f) \o "_mcp.json")
                  /\ w.content = [tool |-> "annotate_screenshot",
                                  input_path |-> e.input_path,
                                  output_path |-> join(ANNOTATED_DIR, f),
                                  theme |-> "documentation",
                                  annotations |-> e.annotations]
                  /\ \A j \in 1..(k - 1) :
                       \E g \in ImagesAt(ALL_MCP_COMMANDS[j].input_path) :
                          IndexOf(CAPTURE_RESULTS.success, g)
                              < IndexOf(CAPTURE_RESULTS.success, f)
             /\ \A j \in 1..Len(PerImageWrites) :
                  j # k => PerImageWrites[j].path # w.path
    /\ pc \notin {"exited", "main", "raised"} => BatchWrites = <<>>
    /\ pc = "exited" =>
         /\ BatchWrites = IF ALL_MCP_COMMANDS # <<>> /\ ~escaped
                          THEN <<BatchFile(ALL_MCP_COMMANDS)>> ELSE <<>>
         /\ BatchWrites # <<>> => Last(writes) = BatchWrites[1]

C16_Witness ==
    /\ pc = "exited"
    /\ CAPTURE_RESULTS.success = <<"admin-1.png", "page-1.png">>
    /\ Len(ALL_MCP_COMMANDS) = 1
    /\ Len(PerImageWrites) = 1
    /\ PerImageWrites[1].content.output_path = "docs/images/annotated/page-1.png"
    /\ BatchWrites = <<BatchFile(ALL_MCP_COMMANDS)>>
    /\ ALL_MCP_COMMANDS[1].output_path # PerImageWrites[1].content.output_path

\* what holds of a call of capture_screenshot_with_retry in every state
RetryBounds ==
    /\ pc = "capture_screenshot_with_retry" => (frame # None /\ frame.running)
    /\ frame # None =>
        /\ frame.attempt <= MAX_RETRIES
        /\ frame.running =>
              /\ pc = "capture_screenshot_with_retry"
              /\ frame.attempt < MAX_RETRIES
              /\ frame.reloads = frame.attempt
              /\ ENABLED (AttemptReturns \/ AttemptRaises)
        /\ ~frame.running =>
              /\ frame.attempt >= 1
              /\ frame.reloads = frame.attempt - 1
              /\ frame.result \in {None, Return(join(OUTPUT_DIR, frame.filename))}
              /\ frame.result = None => frame.attempt = MAX_RETRIES

\* what every step of a running call does
RetryStep ==
    pc = "capture_screenshot_with_retry" =>
        /\ frame'.attempt = frame.attempt + 1
        /\ frame'.reloads \in {frame.reloads, frame.reloads + 1}
        /\ frame'.reloads = frame.reloads + 1 <=> frame'.running
        /\ frame'.running => (pc' = pc /\ frame'.attempt < MAX_RETRIES)

\* C17: capture_screenshot_with_retry makes at most MAX_RETRIES attempts; while
\* it runs every attempt so far failed and was followed by one reload, and one
\* more attempt can be made; every step is one attempt, so the call ends within
\* MAX_RETRIES steps. It returns the path at the first attempt that completes,
\* with no reload after that attempt, and None only after MAX_RETRIES failed
\* attempts, the last of which is not followed by a reload.
C17_BoundedRetry == []RetryBounds /\ [][RetryStep]_vars

C17_Witness ==
    /\ CallReturned
    /\ frame.attempt = MAX_RETRIES
    /\ frame.reloads = MAX_RETRIES - 1
    /\ frame.result = None
    /\ RecordedLast("failed")

\* the three result lists, one after the other
AllResults ==
    CAPTURE_RESULTS.success \o CAPTURE_RESULTS.failed \o CAPTURE_RESULTS.skipped

\* C18: when setup_directories has run (main is about to log in),
\* ALL_MCP_COMMANDS and the success, failed and skipped lists are empty,
\* whatever an earlier session left in them; so the lists never hold more than
\* the captures configured for one session, and no filename twice.
C18_ResetAtSessionStart ==
    /\ pc = "login_as" =>
        /\ ALL_MCP_COMMANDS = <<>>
        /\ CAPTURE_RESULTS.success = <<>>
        /\ CAPTURE_RESULTS.failed = <<>>
        /\ CAPTURE_RESULTS.skipped = <<>>
    /\ Len(AllResults) <= Len(ADMIN_TABS) + Len(FRONTEND_PAGES)
    /\ Len(ALL_MCP_COMMANDS) <= Len(ADMIN_TABS) + Len(FRONTEND_PAGES)
    /\ \A j, k \in 1..Len(AllResults) : j # k => AllResults[j] # AllResults[k]
    /\ \A j, k \in 1..Len(ALL_MCP_COMMANDS) :
         j # k => ALL_MCP_COMMANDS[j].input_path # ALL_MCP_COMMANDS[k].input_path

\* a second session starts: the loop of the session before it went through
\* the one configured page, whose filename was therefore in success or failed
C18_Witness ==
    /\ pc = "login_as"
    /\ cur = 1
    /\ ADMIN_TABS = <<>>
    /\ Len(FRONTEND_PAGES) = 1
    /\ ALL_MCP_COMMANDS = <<>>
    /\ CAPTURE_RESULTS = NoResults

\* how many times a value occurs in a sequence
Occurrences(seq, v) == Cardinality({n \in 1..Len(seq) : seq[n] = v})

\* C19: the success list holds, in call order, the filename of every call in
\* which an attempt completed, and the failed list that of every call whose
\* navigation failed or whose attempts all failed; so each call's filename is
\* in exactly one of the two lists, once. A call that has returned a path is
\* the last of success, one that returned None the last of failed, and a call
\* still running is in neither.
C19_ExactlyOneOfSuccessFailed ==
    /\ CAPTURE_RESULTS.success = Logged(TRUE)
    /\ CAPTURE_RESULTS.failed = Logged(FALSE)
    /\ \A k \in 1..Len(log) :
         /\ Occurrences(CAPTURE_RESULTS.success \o CAPTURE_RESULTS.failed,
                        log[k].filename) = 1
         /\ ~log[k].navigated => ~log[k].completed
    /\ Range(CAPTURE_RESULTS.success) \cap Range(CAPTURE_RESULTS.failed) = {}
    /\ CallReturned =>
         /\ Last(log).filename = frame.filename
         /\ frame.result # None <=> RecordedLast("success")
         /\ frame.result = None <=> RecordedLast("failed")
    /\ pc = "capture_screenshot_with_retry" =>
         frame.filename \notin
            Range(CAPTURE_RESULTS.success) \cup Range(CAPTURE_RESULTS.failed)

C19_Witness ==
    /\ Len(log) = 2
    /\ log[1].completed
    /\ ~log[2].navigated
    /\ CAPTURE_RESULTS.success = <<"admin-1.png">>
    /\ CAPTURE_RESULTS.failed = <<"page-1.png">>

-----------------------------------------------------------------------------
(* Properties of capture_admin_tabs (checked under SpecAdminTabs) *)

\* the filenames of the first n ADMIN_TABS entries
AdminFiles(n) == {ADMIN_TABS[k].filename : k \in 1..n}

\* a call for an admin tab is running
AdminCallRuns ==
    pc = "capture_screenshot_with_retry" /\ frame.caller = "capture_admin_tabs"

\* C21: a filename in the skipped list is that of a configured admin capture
\* with a tab; it is in neither success nor failed, no capture call was made
\* and no command file written for it. A capture without a tab is never
\* skipped. The loop goes on: while it runs the result lists hold exactly the
\* tabs before the loop index, a step for the next tab is enabled, and once it
\* is over every configured tab after a skipped one is in a result list too.
C21_FailedTabClickIsSkipped ==
    /\ \A f \in Range(CAPTURE_RESULTS.skipped) :
         /\ \E k \in 1..Len(ADMIN_TABS) :
              ADMIN_TABS[k].filename = f /\ "tab" \in DOMAIN ADMIN_TABS[k]
         /\ f \notin Range(CAPTURE_RESULTS.success) \cup Range(CAPTURE_RESULTS.failed)
         /\ \A n \in 1..Len(log) : log[n].filename # f
         /\ \A n \in 1..Len(ALL_MCP_COMMANDS) :
              ALL_MCP_COMMANDS[n].input_path # abspath(join(OUTPUT_DIR, f))
         /\ frame # None => frame.filename # f
    /\ pc = "for capture in ADMIN_TABS" =>
         /\ Range(AllResults) = AdminFiles(cur)
         /\ Len(AllResults) = cur
         /\ cur < Len(ADMIN_TABS) => ENABLED (AdminTabCapture \/ AdminTabSkipped)
         /\ cur = Len(ADMIN_TABS) => ENABLED AdminTabsDone
    /\ (CAPTURE_RESULTS.skipped # <<>> /\ pc # "for capture in ADMIN_TABS"
            /\ ~AdminCallRuns) =>
         AdminFiles(Len(ADMIN_TABS)) \subseteq Range(AllResults)

\* the first tab was skipped, the second tab and the page were captured
C21_Witness ==
    /\ Len(ADMIN_TABS) = 2
    /\ CAPTURE_RESULTS.skipped = <<"admin-1.png">>
    /\ CAPTURE_RESULTS.success = <<"admin-2.png", "page-1.png">>
    /\ CAPTURE_RESULTS.failed = <<>>
    /\ Len(log) = 2
    /\ pc = "exited"
    /\ exit_code = Return(0)

-----------------------------------------------------------------------------
(* Properties of main() over all capture sequences (checked under SpecSequences) *)

\* what C22 asks of a session that returns 0
CleanSession == logged_in /\ ~escaped /\ CAPTURE_RESULTS.failed = <<>>

\* this main() has ended: it returned, or an exception left it after its setup
MainEnded == pc = "exited" \/ (pc = "raised" /\ exit_code = None)

RoleLog == SelectSeq(log, LAMBDA e : e.caller = "capture_role_comparisons")
OkSwitches == SelectSeq(switches, LAMBDA sw : sw.ok)

\* a call for a role is running
RoleCallRuns ==
    pc = "capture_screenshot_with_retry" /\ frame.caller = "capture_role_comparisons"

\* the filename of the configured role capture for a role
RoleFile(role) == "dashboard-" \o role \o ".png"

\* C24: the roles are tried in configured order, and navigate_and_capture is
\* called once for every switch that succeeded and never for one that failed:
\* the filename of a role whose switch failed is in none of the result lists
\* and in no call. The current role is the role of the last switch that
\* succeeded (admin before any), so a failed switch leaves it unchanged, and
\* every url was substituted with the username of the role switched to. When
\* the sequence is over, every configured role has been tried.
C24_FailedSwitchChangesNothing ==
    /\ \A n \in 1..Len(switches) :
         /\ switches[n].role = RoleIterations(ROLE_CAPTURES)[n].role
         /\ switches[n].ok =>
              switches[n].url = "/members/" \o ROLES[switches[n].role].username \o "/blog/"
         /\ ~switches[n].ok =>
              /\ switches[n].url = ""
              /\ RoleFile(switches[n].role) \notin Range(AllResults)
              /\ \A k \in 1..Len(log) : log[k].filename # RoleFile(switches[n].role)
              /\ frame # None => frame.filename # RoleFile(switches[n].role)
    /\ Len(RoleLog) = Len(OkSwitches) - (IF RoleCallRuns THEN 1 ELSE 0)
    /\ \A n \in 1..Len(RoleLog) : RoleLog[n].filename = RoleFile(OkSwitches[n].role)
    /\ logged_in =>
         current_role = IF OkSwitches = <<>> THEN "admin" ELSE Last(OkSwitches).role
    /\ pc = "for role in capture['roles']" => Len(switches) = cur
    /\ RoleCallRuns => Len(switches) = cur + 1
    /\ pc \in {"context.close()", "print_annotation_summary"} =>
         Len(switches) = Len(RoleIterations(ROLE_CAPTURES))

\* the switch to subscriber failed, the next role was captured
C24_Witness ==
    /\ pc = "context.close()"
    /\ switches = <<[role |-> "subscriber", ok |-> FALSE, url |-> ""],
                    [role |-> "author", ok |-> TRUE, url |-> "/members/test_author/blog/"]>>
    /\ CAPTURE_RESULTS =
            [success |-> <<"dashboard-author.png">>, failed |-> <<>>, skipped |-> <<>>]
    /\ current_role = "author"

====
